---- MODULE Spec2Model ----
(***************************************************************************)
(* The in-memory B-Tree of the notebook (classes BTreeNode and BTree):     *)
(* search, insert with proactive splitting, and the demonstration cell.    *)
(*                                                                         *)
(* The heap of BTreeNode objects is the sequence `nodes`; a node's         *)
(* identity is its position in that sequence.  Python lists are modelled   *)
(* as sequences, read with 0-based indices through At, Slice, ListInsert.  *)
(* One step of the model is one call of the source: insert, each           *)
(* _insert_non_full, each _split_child, and search.                        *)
(*                                                                         *)
(* Beside the tree: save_data / load_data of the utilities notebook over   *)
(* a small disk (SpecData), and the RMIModel with its LinearModel and      *)
(* equal-size partition, kept in exact fractions (SpecRMI).                *)
(***************************************************************************)
EXTENDS Integers, Sequences, FiniteSets, Bags, TLC

VARIABLES
    t,          \* BTree.t, the order given to the constructor
    root,       \* BTree.root, a node identity
    nodes,      \* the heap: node identity -> BTreeNode fields
    pc,         \* "idle", or the call about to run
    call_node,  \* the node argument of the pending call
    call_i,     \* the index argument of a pending _split_child
    call_key,   \* the key of the insert in progress
    caller,     \* who called the pending _split_child
    result,     \* what the last search returned (or the exception it raised)
    inserted,   \* history: the bag of keys whose insert has returned
    entry,      \* history: root and heap as they were when the pending insert was called
    dirs,       \* the directories that exist on disk
    files,      \* the disk: file path -> whether a file is there, and the array in it
    loaded,     \* the last load_data call and what it returned
    saved,      \* history: <<directory, filename>> -> the array save_data was last given
    rmi,        \* the RMIModel: sorted keys, stage0, leaves, overflow buffer
    rmi_result, \* what the last RMIModel call returned (or the error it failed with)
    rmi_inserted \* history: the bag of keys passed to RMIModel.insert

btree_vars == <<t, root, nodes, pc, call_node, call_i, call_key, caller, result, inserted, entry>>

data_vars == <<dirs, files, loaded, saved>>

rmi_vars == <<rmi, rmi_result, rmi_inserted>>

other_vars == <<data_vars, rmi_vars>>

vars == <<btree_vars, data_vars, rmi_vars>>

\* ---------------------------------------------------------------- bounds

MaxT == 3            \* orders 2..MaxT
MaxInserts == 10     \* insert calls per behaviour
MaxKey == 4          \* keys 1..MaxKey when a key may be inserted again
MaxDistinctKey == 10 \* keys 1..MaxDistinctKey when every key is inserted once
MaxArrayLen == 2     \* saved arrays have up to MaxArrayLen elements
MaxValue == 1        \* with values 0..MaxValue
MaxRmiLen == 3       \* arrays given to RMIModel.build have up to MaxRmiLen keys
MaxRmiKey == 4       \* with keys 1..MaxRmiKey
MaxLeafModels == 2   \* num_leaf_models 1..MaxLeafModels
MaxRmiInserts == 2   \* RMIModel.insert calls per behaviour

Orders == 2..MaxT
Keys == 1..MaxKey
DistinctKeys == 1..MaxDistinctKey
\* the keys searched for: the inserted domain and one key on either side
Around(S) == S \cup {0} \cup {k + 1 : k \in S}

\* -------------------------------------------------------- Python values

\* Python's None, a value that is no key, no index and no node identity.
None == -1

\* What a call returns: a tuple (node, index), or the exception it raised.
Tuple(n, i) == [kind |-> "tuple", node |-> n, index |-> i]
Raise(e) == [kind |-> e, node |-> None, index |-> None]
NoResult == [key |-> None, ret |-> [kind |-> "no call", node |-> None, index |-> None]]

\* no insert is pending
NoEntry == [root |-> None, nodes |-> <<>>]

\* lst[i] for 0 <= i < len(lst)
At(lst, i) == lst[i + 1]

\* lst[a:b] with Python's clamping of the bounds (a, b >= 0)
Slice(lst, a, b) ==
    LET hi == IF b > Len(lst) THEN Len(lst) ELSE b
    IN  IF a >= hi THEN <<>> ELSE SubSeq(lst, a + 1, hi)

\* lst.insert(i, x), i >= 0: before position i, or at the end when i > len(lst)
ListInsert(lst, i, x) ==
    LET j == IF i > Len(lst) THEN Len(lst) ELSE i
    IN  SubSeq(lst, 1, j) \o <<x>> \o SubSeq(lst, j + 1, Len(lst))

\* ------------------------------------------------------------ BTreeNode

BTreeNode(leaf) ==
    [is_leaf |-> leaf, keys |-> <<>>, children |-> <<>>, n_keys |-> 0]

\* ---------------------------------------------------------------- search

\* (mutant) the scan steps over a key equal to the one searched for
RECURSIVE SearchScanPastEqual(_, _, _)
SearchScanPastEqual(n, k, i) ==
    IF i < n.n_keys /\ i < Len(n.keys) /\ k >= At(n.keys, i)
    THEN SearchScanPastEqual(n, k, i + 1)
    ELSE [err |-> "", i |-> i]

\* The scan of _search_recursive: the first i with not (key > keys[i]).
\* Reading past the end of keys raises IndexError, comparing with None TypeError.
RECURSIVE SearchScan(_, _, _)
SearchScan(n, k, i) ==
    IF i < n.n_keys
    THEN IF i >= Len(n.keys) THEN [err |-> "IndexError", i |-> i]
         ELSE IF At(n.keys, i) = None THEN [err |-> "TypeError", i |-> i]
         ELSE IF k > At(n.keys, i) THEN SearchScan(n, k, i + 1)
         ELSE [err |-> "", i |-> i]
    ELSE [err |-> "", i |-> i]

\* (mutant) the scan starts at the second key of each node
RECURSIVE SearchRecursiveFromOne(_, _, _)
SearchRecursiveFromOne(h, n, k) ==
    LET scan == SearchScan(h[n], k, 1)
        i == scan.i
    IN  IF scan.err # "" THEN Raise(scan.err)
        ELSE IF i < h[n].n_keys /\ k = At(h[n].keys, i) THEN Tuple(n, i)
        ELSE IF h[n].is_leaf THEN Tuple(None, None)
        ELSE IF i >= Len(h[n].children) THEN Raise("IndexError")
        ELSE SearchRecursiveFromOne(h, At(h[n].children, i), k)

RECURSIVE _search_recursive(_, _, _)
_search_recursive(h, n, k) ==
    LET scan == SearchScan(h[n], k, 0)
        i == scan.i
    IN  IF scan.err # "" THEN Raise(scan.err)
        ELSE IF i < h[n].n_keys /\ k = At(h[n].keys, i) THEN Tuple(n, i)
        ELSE IF h[n].is_leaf THEN Tuple(None, None)
        ELSE IF i >= Len(h[n].children) THEN Raise("IndexError")
        ELSE _search_recursive(h, At(h[n].children, i), k)

search(h, r, k) == _search_recursive(h, r, k)

\* ---------------------------------------------------------------- insert

\* (mutant) the key is stored in the appended slot and nothing is shifted
LeafShiftNoShift(ks, k, i) == [ks EXCEPT ![Len(ks)] = k]

\* The leaf branch of _insert_non_full: append None, shift the larger keys
\* one place to the right, store the key in the gap.
RECURSIVE LeafShift(_, _, _)
LeafShift(ks, k, i) ==
    IF i >= 0 /\ k < At(ks, i)
    THEN LeafShift([ks EXCEPT ![i + 2] = At(ks, i)], k, i - 1)
    ELSE [ks EXCEPT ![i + 2] = k]

\* (mutant) a key the leaf already holds is not stored again
LeafInsertNoRepeat(n, k) ==
    IF \E j \in 1..Len(n.keys) : n.keys[j] = k
    THEN n
    ELSE [n EXCEPT !.keys = LeafShift(Append(n.keys, None), k, n.n_keys - 1),
                   !.n_keys = n.n_keys + 1]

LeafInsert(n, k) ==
    [n EXCEPT !.keys = LeafShift(Append(n.keys, None), k, n.n_keys - 1),
              !.n_keys = n.n_keys + 1]

\* The internal branch of _insert_non_full: the child index to descend into.
RECURSIVE DescendScan(_, _, _)
DescendScan(ks, k, i) ==
    IF i >= 0 /\ k < At(ks, i) THEN DescendScan(ks, k, i - 1) ELSE i + 1

ChildIndex(n, k) == DescendScan(n.keys, k, n.n_keys - 1)

\* (mutant) the key after the median is promoted
MedianKeyOffByOne(fc) == At(fc.keys, t)

\* median_key of _split_child, read before the child's keys are cut
MedianKey(fc) == At(fc.keys, t - 1)

\* (mutant) the new sibling is always created as a leaf
NewChildAlwaysLeaf(fc) ==
    [is_leaf  |-> TRUE,
     keys     |-> Slice(fc.keys, t, Len(fc.keys)),
     children |-> IF ~fc.is_leaf THEN Slice(fc.children, t, Len(fc.children)) ELSE <<>>,
     n_keys   |-> t - 1]

\* (mutant) the new sibling takes the keys from t+1 on: the key at t is lost
NewChildSkipsKey(fc) ==
    [is_leaf  |-> fc.is_leaf,
     keys     |-> Slice(fc.keys, t + 1, Len(fc.keys)),
     children |-> IF ~fc.is_leaf THEN Slice(fc.children, t, Len(fc.children)) ELSE <<>>,
     n_keys   |-> t - 1]

\* new_child of _split_child: the keys, and the children, after the median
NewChild(fc) ==
    [is_leaf  |-> fc.is_leaf,
     keys     |-> Slice(fc.keys, t, Len(fc.keys)),
     children |-> IF ~fc.is_leaf THEN Slice(fc.children, t, Len(fc.children)) ELSE <<>>,
     n_keys   |-> t - 1]

\* (mutant) the split child keeps all its children
ShrunkChildKeepsChildren(fc) ==
    [fc EXCEPT !.keys = Slice(fc.keys, 0, t - 1), !.n_keys = t - 1]

\* (mutant) the split child keeps its old key count
ShrunkChildKeepsCount(fc) ==
    [fc EXCEPT !.keys = Slice(fc.keys, 0, t - 1),
               !.children = IF ~fc.is_leaf THEN Slice(fc.children, 0, t) ELSE fc.children]

\* full_child after _split_child: the keys, and the children, before the median
ShrunkChild(fc) ==
    [fc EXCEPT !.keys = Slice(fc.keys, 0, t - 1),
               !.n_keys = t - 1,
               !.children = IF ~fc.is_leaf THEN Slice(fc.children, 0, t) ELSE fc.children]

\* (mutant) the new sibling is put before the split child, at children[i]
SplitChildSiblingFirst(h, parent, i) ==
    LET full == At(h[parent].children, i)
        new  == Len(h) + 1
        h1   == Append([h EXCEPT ![full] = ShrunkChild(h[full])], NewChild(h[full]))
    IN  [h1 EXCEPT ![parent].keys = ListInsert(h[parent].keys, i, MedianKey(h[full])),
                   ![parent].children = ListInsert(h[parent].children, i, new),
                   ![parent].n_keys = h[parent].n_keys + 1]

\* _split_child(parent_node, i) on the heap h; the new node is allocated last.
_split_child(h, parent, i) ==
    LET full == At(h[parent].children, i)
        new  == Len(h) + 1
        h1   == Append([h EXCEPT ![full] = ShrunkChild(h[full])], NewChild(h[full]))
    IN  [h1 EXCEPT ![parent].keys = ListInsert(h[parent].keys, i, MedianKey(h[full])),
                   ![parent].children = ListInsert(h[parent].children, i + 1, new),
                   ![parent].n_keys = h[parent].n_keys + 1]

\* (mutant) a node counts as full one key early
IsFullEarly(n) == n.n_keys = 2 * t - 2

\* the test n_keys == 2 * self.t - 1 of insert and _insert_non_full
IsFull(n) == n.n_keys = 2 * t - 1

\* ------------------------------------------------- save_data / load_data
\* A file name is the sequence of its parts, so that the ".npy" ending is
\* something a name has or lacks; a path is the directory followed by them.

Directories == {"data", "temp_data"}
Filenames == {<<"test_data">>, <<"test_data", ".npy">>}
Arrays == UNION {[1..n -> 0..MaxValue] : n \in 0..MaxArrayLen}

\* os.path.join(directory, filename)
join(directory, filename) == <<directory>> \o filename

\* (mutant) np.save writing to the path as given
NpSavePathAsGiven(filepath) == filepath

\* the file np.save(filepath, data) writes: ".npy" is appended to a path
\* that does not end with it
NpSavePath(filepath) ==
    IF filepath[Len(filepath)] = ".npy" THEN filepath ELSE Append(filepath, ".npy")

Paths == {join(d, f) : d \in Directories, f \in Filenames}
            \cup {NpSavePath(join(d, f)) : d \in Directories, f \in Filenames}

NoFile == [exists |-> FALSE, array |-> <<>>]
File(a) == [exists |-> TRUE, array |-> a]

\* what load_data returns: the array, or None
ReturnNone == [none |-> TRUE, array |-> <<>>]
ReturnArray(a) == [none |-> FALSE, array |-> a]

NoLoad == [called |-> FALSE, directory |-> "", filename |-> <<>>, ret |-> ReturnNone]
NotSaved == [is_saved |-> FALSE, array |-> <<>>]

\* os.path.exists(filepath)
exists(filepath) == files[filepath].exists

DataInit ==
    /\ dirs = {}
    /\ files = [p \in Paths |-> NoFile]
    /\ loaded = NoLoad
    /\ saved = [df \in Directories \X Filenames |-> NotSaved]

\* save_data(data, filename, directory).  A save_data call under another
\* name that writes the same file ends what the history holds for this one.
save_data(data, filename, directory) ==
    LET filepath == join(directory, filename)
        written  == NpSavePath(filepath)
    IN  /\ dirs' = dirs \cup {directory}
        /\ files' = [files EXCEPT ![written] = File(data)]
        /\ saved' = [df \in Directories \X Filenames |->
                        IF df = <<directory, filename>>
                        THEN [is_saved |-> TRUE, array |-> data]
                        ELSE IF NpSavePath(join(df[1], df[2])) = written
                                  \/ join(df[1], df[2]) = written
                             THEN NotSaved
                             ELSE saved[df]]
        /\ loaded' = NoLoad

\* load_data(filename, directory)
load_data(filename, directory) ==
    LET filepath == join(directory, filename)
    IN  /\ loaded' = [called |-> TRUE, directory |-> directory, filename |-> filename,
                      ret |-> IF exists(filepath)
                              THEN ReturnArray(files[filepath].array)
                              ELSE ReturnNone]
        /\ UNCHANGED <<dirs, files, saved>>

\* the clean-up of the demonstration: os.remove of the file, os.rmdir of the
\* directory (which holds nothing else)
remove(filename, directory) ==
    LET filepath == join(directory, filename)
    IN  /\ exists(filepath)
        /\ files' = [files EXCEPT ![filepath] = NoFile]
        /\ dirs' = dirs \ {directory}
        /\ saved' = [df \in Directories \X Filenames |->
                        IF NpSavePath(join(df[1], df[2])) = filepath
                             \/ join(df[1], df[2]) = filepath
                        THEN NotSaved
                        ELSE saved[df]]
        /\ loaded' = NoLoad

SaveData ==
    /\ \E data \in Arrays, filename \in Filenames, directory \in Directories :
          save_data(data, filename, directory)
    /\ UNCHANGED <<btree_vars, rmi_vars>>

LoadData ==
    /\ \E filename \in Filenames, directory \in Directories :
          load_data(filename, directory)
    /\ UNCHANGED <<btree_vars, rmi_vars>>

Remove ==
    /\ \E filename \in Filenames, directory \in Directories :
          remove(filename, directory)
    /\ UNCHANGED <<btree_vars, rmi_vars>>

NextData == SaveData \/ LoadData \/ Remove

\* --------------------------------------------------------------- RMIModel
\* LinearModel, SegmentPartitioner and RMIModel.  Positions are 0-based.  A
\* LinearModel is kept exactly, as the fraction
\*     predict(x) = (intercept_num + slope_num * x) / den,   den > 0.

RmiKeys == 1..MaxRmiKey

IsSorted(a) == \A i \in 1..(Len(a) - 1) : a[i] <= a[i + 1]

SortedArrays == {a \in UNION {[1..n -> RmiKeys] : n \in 0..MaxRmiLen} : IsSorted(a)}

Abs(x) == IF x < 0 THEN -x ELSE x
Min2(a, b) == IF a < b THEN a ELSE b
Max2(a, b) == IF a > b THEN a ELSE b
MaxOf(S) == CHOOSE x \in S : \A y \in S : y <= x
clip(x, lo, hi) == Max2(lo, Min2(hi, x))

RECURSIVE SumSeq(_)
SumSeq(s) == IF s = <<>> THEN 0 ELSE s[1] + SumSeq(Tail(s))

\* round to the nearest integer (halves upwards) of p / q, q > 0
round(p, q) == (2 * p + q) \div (2 * q)

\* LinearModel.fit(points), points a non-empty sequence of <<x, y>>:
\* slope = cov(x, y) / var(x), intercept = mean(y) - slope * mean(x);
\* the flat model when var(x) = 0.
fit(points) ==
    LET n   == Len(points)
        sx  == SumSeq([i \in 1..n |-> points[i][1]])
        sy  == SumSeq([i \in 1..n |-> points[i][2]])
        sxx == SumSeq([i \in 1..n |-> points[i][1] * points[i][1]])
        sxy == SumSeq([i \in 1..n |-> points[i][1] * points[i][2]])
        var == n * sxx - sx * sx
        cov == n * sxy - sx * sy
    IN  IF var = 0
        THEN [slope_num |-> 0, intercept_num |-> sy, den |-> n]
        ELSE [slope_num |-> cov * n, intercept_num |-> sy * var - cov * sx, den |-> n * var]

\* round(model.predict(x))
predict_rounded(model, x) == round(model.intercept_num + model.slope_num * x, model.den)

\* SegmentPartitioner.partition, equal-size policy: ranges [lo, hi) of size
\* ceil(n / num_segments), the last one truncated, covering [0, n).
segment_size(n, num_segments) == (n + num_segments - 1) \div num_segments

partition(n, num_segments) ==
    LET size  == segment_size(n, num_segments)
        count == (n + size - 1) \div size
    IN  [j \in 1..count |-> [lo |-> (j - 1) * size, hi |-> Min2(j * size, n)]]

\* one leaf of build: the model fit over (key, position in the whole array)
\* and max_error over every point of the segment
leaf(sorted_keys, seg) ==
    LET model == fit([p \in 1..(seg.hi - seg.lo) |->
                        <<sorted_keys[seg.lo + p], seg.lo + p - 1>>])
    IN  [model |-> model,
         max_error |-> MaxOf({Abs(pos - predict_rounded(model, sorted_keys[pos + 1])) :
                                 pos \in seg.lo..(seg.hi - 1)})]

\* RMIModel.build(sorted_keys, num_leaf_models), sorted_keys not empty
build(sorted_keys, num_leaf_models) ==
    LET n    == Len(sorted_keys)
        size == segment_size(n, num_leaf_models)
        segs == partition(n, num_leaf_models)
    IN  [built  |-> TRUE,
         num_leaf_models |-> num_leaf_models,
         keys   |-> sorted_keys,
         stage0 |-> fit([i \in 1..n |-> <<sorted_keys[i], (i - 1) \div size>>]),
         leaves |-> [j \in 1..Len(segs) |-> leaf(sorted_keys, segs[j])],
         buffer |-> <<>>]

\* RMIModel.predict(key) -> (approx_position, bound)
predict(r, key) ==
    LET leaf_idx == clip(predict_rounded(r.stage0, key), 0, Len(r.leaves) - 1)
    IN  [approx_position |->
             clip(predict_rounded(r.leaves[leaf_idx + 1].model, key), 0, Len(r.keys) - 1),
         bound |-> r.leaves[leaf_idx + 1].max_error]

\* binary search of a[lo..hi] (0-based, inclusive) for key: an index, or None
RECURSIVE binary_search(_, _, _, _)
binary_search(a, key, lo, hi) ==
    IF lo > hi THEN None
    ELSE LET mid == (lo + hi) \div 2
         IN  IF a[mid + 1] = key THEN mid
             ELSE IF a[mid + 1] < key THEN binary_search(a, key, mid + 1, hi)
             ELSE binary_search(a, key, lo, mid - 1)

NotFound == [kind |-> "NotFound", index |-> None, fallback |-> TRUE]
FoundAt(i, fb) == [kind |-> "index", index |-> i, fallback |-> fb]
FoundInBuffer == [kind |-> "buffer", index |-> None, fallback |-> TRUE]

\* the window search of RMIModel.search
window_search(r, key) ==
    LET p  == predict(r, key)
        lo == Max2(0, p.approx_position - p.bound)
        hi == Min2(Len(r.keys) - 1, p.approx_position + p.bound)
    IN  binary_search(r.keys, key, lo, hi)

\* (mutant) NotFound as soon as the window misses
rmi_search_window_only(r, key) ==
    LET w == window_search(r, key)
    IN  IF w # None THEN FoundAt(w, FALSE) ELSE NotFound

\* (mutant) the overflow buffer is not scanned
rmi_search_no_buffer(r, key) ==
    LET w == window_search(r, key)
        f == binary_search(r.keys, key, 0, Len(r.keys) - 1)
    IN  IF w # None THEN FoundAt(w, FALSE)
        ELSE IF f # None THEN FoundAt(f, TRUE)
        ELSE NotFound

\* RMIModel.search(key): the window, then the whole array (a fallback), then
\* the overflow buffer
rmi_search(r, key) ==
    LET w == window_search(r, key)
        f == binary_search(r.keys, key, 0, Len(r.keys) - 1)
    IN  IF w # None THEN FoundAt(w, FALSE)
        ELSE IF f # None THEN FoundAt(f, TRUE)
        ELSE IF \E j \in 1..Len(r.buffer) : r.buffer[j] = key THEN FoundInBuffer
        ELSE NotFound

\* RMIModel.insert(key)
rmi_insert(r, key) == [r EXCEPT !.buffer = Append(r.buffer, key)]

\* the buffer merged into the sorted array
sorted_insert(a, key) ==
    LET i == Cardinality({j \in 1..Len(a) : a[j] <= key})
    IN  SubSeq(a, 1, i) \o <<key>> \o SubSeq(a, i + 1, Len(a))

RECURSIVE merge(_, _)
merge(a, buffer) ==
    IF buffer = <<>> THEN a ELSE merge(sorted_insert(a, Head(buffer)), Tail(buffer))

\* (mutant) rebuild re-runs build on the old array and drops the buffer
rebuild_drops_buffer(r) == build(r.keys, r.num_leaf_models)

\* RMIModel.rebuild()
rebuild(r) == build(merge(r.keys, r.buffer), r.num_leaf_models)

NotBuilt ==
    [built |-> FALSE, num_leaf_models |-> 0, keys |-> <<>>,
     stage0 |-> [slope_num |-> 0, intercept_num |-> 0, den |-> 1],
     leaves |-> <<>>, buffer |-> <<>>]
NoRmiResult == [call |-> "none", key |-> None, ret |-> NotFound]
EmptyInputError == [call |-> "build", key |-> None,
                    ret |-> [kind |-> "EmptyInputError", index |-> None, fallback |-> FALSE]]

RMIInit ==
    /\ rmi = NotBuilt
    /\ rmi_result = NoRmiResult
    /\ rmi_inserted = EmptyBag

Build ==
    /\ ~rmi.built
    /\ \E sorted_keys \in SortedArrays, num_leaf_models \in 1..MaxLeafModels :
          IF sorted_keys = <<>>
          THEN /\ rmi_result' = EmptyInputError
               /\ UNCHANGED <<rmi, rmi_inserted>>
          ELSE /\ rmi' = build(sorted_keys, num_leaf_models)
               /\ rmi_result' = NoRmiResult
               /\ UNCHANGED rmi_inserted
    /\ UNCHANGED <<btree_vars, data_vars>>

RmiSearch ==
    /\ rmi.built
    /\ \E key \in Around(RmiKeys) :
          rmi_result' = [call |-> "search", key |-> key, ret |-> rmi_search(rmi, key)]
    /\ UNCHANGED <<rmi, rmi_inserted>>
    /\ UNCHANGED <<btree_vars, data_vars>>

RmiInsert ==
    /\ rmi.built
    /\ BagCardinality(rmi_inserted) < MaxRmiInserts
    /\ \E key \in RmiKeys :
          /\ rmi' = rmi_insert(rmi, key)
          /\ rmi_inserted' = rmi_inserted (+) SetToBag({key})
    /\ rmi_result' = NoRmiResult
    /\ UNCHANGED <<btree_vars, data_vars>>

Rebuild ==
    /\ rmi.built
    /\ rmi' = rebuild(rmi)
    /\ rmi_result' = NoRmiResult
    /\ UNCHANGED rmi_inserted
    /\ UNCHANGED <<btree_vars, data_vars>>

NextRMI == Build \/ RmiSearch \/ RmiInsert \/ Rebuild

\* ----------------------------------------------------------------- state

Init ==
    /\ t \in Orders
    /\ nodes = <<BTreeNode(TRUE)>>
    /\ root = 1
    /\ pc = "idle"
    /\ call_node = 0
    /\ call_i = 0
    /\ call_key = 0
    /\ caller = "none"
    /\ result = NoResult
    /\ inserted = EmptyBag
    /\ entry = NoEntry
    /\ DataInit
    /\ RMIInit

\* BTree.insert(key) up to its first call.
InsertBegin(k) ==
    /\ call_key' = k
    /\ entry' = [root |-> root, nodes |-> nodes]
    /\ result' = NoResult
    /\ IF IsFull(nodes[root])
       THEN /\ nodes' = Append(nodes, [BTreeNode(FALSE) EXCEPT !.children = <<root>>])
            /\ pc' = "_split_child"
            /\ call_node' = Len(nodes) + 1
            /\ call_i' = 0
            /\ caller' = "insert"
       ELSE /\ pc' = "_insert_non_full"
            /\ call_node' = root
            /\ UNCHANGED <<nodes, call_i, caller>>
    /\ UNCHANGED <<t, root, inserted, other_vars>>

\* insert(key) by a caller that may insert a key again.
Insert ==
    /\ pc = "idle"
    /\ BagCardinality(inserted) < MaxInserts
    /\ \E k \in Keys : InsertBegin(k)

\* insert(key) by a caller that inserts a set of keys, each once, in any order.
InsertDistinct ==
    /\ pc = "idle"
    /\ BagCardinality(inserted) < MaxInserts
    /\ \E k \in DistinctKeys \ BagToSet(inserted) : InsertBegin(k)

\* The pending insert ends: it returns, or an exception leaves it.
Return(nodes1, root1, done, res) ==
    /\ nodes' = nodes1
    /\ root' = root1
    /\ pc' = "idle"
    /\ inserted' = IF done THEN inserted (+) SetToBag({call_key}) ELSE inserted
    /\ result' = res
    /\ entry' = NoEntry
    /\ call_node' = 0
    /\ call_i' = 0
    /\ call_key' = 0
    /\ caller' = "none"

\* (mutant) the promoted key is not looked at: the descent stays at child i
AfterSplitIndexStay(n, i, k) == i

\* After a split in _insert_non_full: the side of the promoted key to descend into.
AfterSplitIndex(n, i, k) == IF k > At(n.keys, i) THEN i + 1 ELSE i

\* One _split_child call and the caller's code up to its next call.
SplitChild ==
    /\ pc = "_split_child"
    /\ LET h == _split_child(nodes, call_node, call_i)
           j == AfterSplitIndex(h[call_node], call_i, call_key)
       IN  IF caller = "insert"
           THEN /\ nodes' = h
                /\ root' = call_node
                /\ pc' = "_insert_non_full"
                /\ UNCHANGED <<call_node, call_i, call_key, caller, result, inserted, entry>>
           ELSE IF j >= Len(h[call_node].children)
           THEN Return(h, root, FALSE, [key |-> call_key, ret |-> Raise("IndexError")])
           ELSE /\ nodes' = h
                /\ call_node' = At(h[call_node].children, j)
                /\ pc' = "_insert_non_full"
                /\ UNCHANGED <<root, call_i, call_key, caller, result, inserted, entry>>
    /\ UNCHANGED <<t, other_vars>>

\* (mutant) _insert_non_full descends without splitting a full child first
InsertNonFullNoSplit ==
    /\ pc = "_insert_non_full"
    /\ IF nodes[call_node].is_leaf
       THEN Return([nodes EXCEPT ![call_node] = LeafInsert(@, call_key)], root, TRUE, result)
       ELSE LET i == ChildIndex(nodes[call_node], call_key)
            IN  IF i >= Len(nodes[call_node].children)
                THEN Return(nodes, root, FALSE, [key |-> call_key, ret |-> Raise("IndexError")])
                ELSE /\ call_node' = At(nodes[call_node].children, i)
                     /\ UNCHANGED <<nodes, root, pc, call_i, call_key, caller, result, inserted, entry>>
    /\ UNCHANGED <<t, other_vars>>

\* One _insert_non_full call up to its next call, or to the return of insert.
InsertNonFull ==
    /\ pc = "_insert_non_full"
    /\ IF nodes[call_node].is_leaf
       THEN Return([nodes EXCEPT ![call_node] = LeafInsert(@, call_key)], root, TRUE, result)
       ELSE LET i == ChildIndex(nodes[call_node], call_key)
            IN  IF i >= Len(nodes[call_node].children)
                THEN Return(nodes, root, FALSE, [key |-> call_key, ret |-> Raise("IndexError")])
                ELSE IF IsFull(nodes[At(nodes[call_node].children, i)])
                THEN /\ pc' = "_split_child"
                     /\ call_i' = i
                     /\ caller' = "_insert_non_full"
                     /\ UNCHANGED <<nodes, root, call_node, call_key, result, inserted, entry>>
                ELSE /\ call_node' = At(nodes[call_node].children, i)
                     /\ UNCHANGED <<nodes, root, pc, call_i, call_key, caller, result, inserted, entry>>
    /\ UNCHANGED <<t, other_vars>>

\* BTree.search(key), whole.
SearchFor(k) ==
    /\ pc = "idle"
    /\ result' = [key |-> k, ret |-> search(nodes, root, k)]
    /\ UNCHANGED <<t, root, nodes, pc, call_node, call_i, call_key, caller, inserted, entry, other_vars>>

Search == \E k \in Around(Keys) : SearchFor(k)

SearchDistinct == \E k \in Around(DistinctKeys) : SearchFor(k)

Next == Insert \/ SplitChild \/ InsertNonFull \/ Search

Spec == Init /\ [][Next]_vars

NextDistinct == InsertDistinct \/ SplitChild \/ InsertNonFull \/ SearchDistinct

SpecDistinct == Init /\ [][NextDistinct]_vars

\* The demonstration cell: a BTree of order T, the keys of keys_to_insert
\* inserted in ascending order (the cell sorts them), then the searches of
\* search_values.  search changes nothing, so it is allowed between inserts too.
T == 3
keys_to_insert == <<0, 5, 7, 10, 12, 15, 18, 20, 22, 25, 28, 30, 33, 35, 40, 45, 50>>
search_values == <<15, 25, 1, 50, 2, 33, 100>>

InitDemo == Init /\ t = T

InsertDemo ==
    /\ pc = "idle"
    /\ BagCardinality(inserted) < Len(keys_to_insert)
    /\ InsertBegin(keys_to_insert[BagCardinality(inserted) + 1])

SearchDemo == \E j \in 1..Len(search_values) : SearchFor(search_values[j])

NextDemo == InsertDemo \/ SplitChild \/ InsertNonFull \/ SearchDemo

SpecDemo == InitDemo /\ [][NextDemo]_vars

\* The data utilities on their own: an empty disk, then any save_data,
\* load_data and clean-up calls; the tree is left as constructed.
InitData == Init /\ t = T

SpecData == InitData /\ [][NextData]_vars

\* The RMIModel on its own: build on a sorted array, then any search, insert
\* and rebuild calls.
InitRMI == Init /\ t = T

SpecRMI == InitRMI /\ [][NextRMI]_vars

\* ------------------------------------------------------------ observers
\* What the properties below read off a heap; none of it is code of the tree.

Idle == pc = "idle"

ChildrenOf(h, n) == {At(h[n].children, i) : i \in 0..(Len(h[n].children) - 1)}

RECURSIVE Subtree(_, _)
Subtree(h, n) == {n} \cup UNION {Subtree(h, c) : c \in ChildrenOf(h, n)}

KeysOf(h, n) == {At(h[n].keys, i) : i \in 0..(Len(h[n].keys) - 1)}

SubtreeKeys(h, n) == UNION {KeysOf(h, m) : m \in Subtree(h, n)}

\* the depths, counted from n at depth d, of the leaves below n
RECURSIVE LeafDepths(_, _, _)
LeafDepths(h, n, d) ==
    IF h[n].is_leaf THEN {d}
    ELSE UNION {LeafDepths(h, c, d + 1) : c \in ChildrenOf(h, n)}

Height == LeafDepths(nodes, root, 1)

\* children[0], keys[0], children[1], ..., keys[k-1], children[k], from position i on
RECURSIVE InOrder(_, _)
RECURSIVE InOrderFrom(_, _, _)
InOrderFrom(h, n, i) ==
    LET sub == IF i < Len(h[n].children) THEN InOrder(h, At(h[n].children, i)) ELSE <<>>
    IN  IF i < Len(h[n].keys)
        THEN sub \o <<At(h[n].keys, i)>> \o InOrderFrom(h, n, i + 1)
        ELSE IF i + 1 < Len(h[n].children) THEN sub \o InOrderFrom(h, n, i + 1)
        ELSE sub
InOrder(h, n) == InOrderFrom(h, n, 0)

StrictlyIncreasing(s) == \A i \in 1..(Len(s) - 1) : s[i] < s[i + 1]
NonDecreasing(s) == \A i \in 1..(Len(s) - 1) : s[i] <= s[i + 1]

Range(s) == {s[i] : i \in 1..Len(s)}

Hit(r) == r.kind = "tuple" /\ r.node # None

InsertedKeys == BagToSet(inserted)
NoKeyTwice == \A k \in InsertedKeys : CopiesIn(k, inserted) = 1

\* --------------------------------------------------------------- claims

\* C1: after the keys of a duplicate-free set K have been inserted, in any
\* order, into a fresh BTree(t), search(k) reports a hit exactly for the k in K,
\* for every k of the domain (the keys, and one key on either side).
C1_SearchFindsExactlyInserted ==
    (Idle /\ NoKeyTwice) =>
        \A k \in Around(DistinctKeys) : Hit(search(nodes, root, k)) <=> k \in InsertedKeys

\* a tree of three levels holding MaxInserts distinct keys, searched with a hit
C1_Witness ==
    /\ Idle /\ NoKeyTwice /\ BagCardinality(inserted) = MaxInserts
    /\ Height = {3}
    /\ Hit(result.ret) /\ result.key \in InsertedKeys

\* C2: after any sequence of inserts every node other than the root holds at
\* least t-1 and at most 2t-1 keys.
C2_NonRootKeyCount ==
    Idle => \A n \in Subtree(nodes, root) \ {root} :
                /\ t - 1 <= Len(nodes[n].keys) /\ Len(nodes[n].keys) <= 2 * t - 1
                /\ t - 1 <= nodes[n].n_keys /\ nodes[n].n_keys <= 2 * t - 1

\* non-root nodes at both ends of the range, in a tree of three levels
C2_Witness ==
    /\ Idle /\ Height = {3}
    /\ \E n \in Subtree(nodes, root) \ {root} : Len(nodes[n].keys) = t - 1
    /\ \E n \in Subtree(nodes, root) \ {root} : Len(nodes[n].keys) = 2 * t - 1

\* C3: after every insert all leaves are at the same depth from the root.
C3_LeavesSameDepth == Idle => Cardinality(LeafDepths(nodes, root, 1)) = 1

\* the tree has grown twice through a root split
C3_Witness == Idle /\ Height = {3} /\ Cardinality(Subtree(nodes, root)) >= 7

\* C4: after any sequence of inserts an internal node holding k keys has
\* exactly k+1 children and a leaf has none.
C4_ChildCount ==
    Idle => \A n \in Subtree(nodes, root) :
                IF nodes[n].is_leaf
                THEN Len(nodes[n].children) = 0
                ELSE /\ Len(nodes[n].children) = Len(nodes[n].keys) + 1
                     /\ Len(nodes[n].children) = nodes[n].n_keys + 1

\* an internal node below the root, with two keys and three children
C4_Witness ==
    /\ Idle
    /\ \E n \in Subtree(nodes, root) \ {root} :
          ~nodes[n].is_leaf /\ Len(nodes[n].keys) = 2 /\ Len(nodes[n].children) = 3

\* C5: after the keys of a duplicate-free set K have been inserted in any order
\* the in-order traversal yields exactly the keys of K, strictly increasing.
C5_InOrderSorted ==
    (Idle /\ NoKeyTwice) =>
        LET tr == InOrder(nodes, root)
        IN  /\ StrictlyIncreasing(tr)
            /\ Range(tr) = InsertedKeys
            /\ Len(tr) = Cardinality(InsertedKeys)

\* MaxInserts distinct keys in three levels, not inserted in ascending order:
\* the first leaf was inserted into again after it was split
C5_Witness ==
    /\ Idle /\ NoKeyTwice /\ BagCardinality(inserted) = MaxInserts
    /\ Height = {3}
    /\ nodes[1].is_leaf /\ Len(nodes[1].keys) > t - 1
    /\ Len(InOrder(nodes, root)) = MaxInserts

\* C6 (as stated): in every state reached by inserts the keys of every node are
\* strictly increasing.  insert stores a key that is already there a second
\* time, so this fails as soon as a key is inserted twice.
C6_KeysStrictlyIncreasing ==
    Idle => \A n \in Subtree(nodes, root) : StrictlyIncreasing(nodes[n].keys)

FirstGE(ks, k) ==
    CHOOSE i \in 0..Len(ks) :
        /\ \A j \in 0..(i - 1) : At(ks, j) < k
        /\ i < Len(ks) => At(ks, i) >= k

\* the descent from n to a leaf: at each node, the child at the index of the
\* first key >= k
RECURSIVE DescentPath(_, _, _)
DescentPath(h, n, k) ==
    IF h[n].is_leaf THEN <<n>>
    ELSE <<n>> \o DescentPath(h, At(h[n].children, FirstGE(h[n].keys, k)), k)

FirstHolding(h, path, k) ==
    LET held == {j \in 1..Len(path) : k \in KeysOf(h, path[j])}
    IN  path[CHOOSE j \in held : \A j2 \in held : j <= j2]

\* C8: a hit of search(key) is a pair (node, index) with node reachable from
\* the root, 0 <= index < node.n_keys and node.keys[index] = key, and node is
\* the first node of the descent path that holds key.
C8_HitIsFirstOnDescentPath ==
    (Idle /\ Hit(result.ret)) =>
        LET n == result.ret.node
            i == result.ret.index
        IN  /\ n \in Subtree(nodes, root)
            /\ 0 <= i /\ i < nodes[n].n_keys
            /\ i < Len(nodes[n].keys) /\ At(nodes[n].keys, i) = result.key
            /\ \E j \in 1..Len(DescentPath(nodes, root, result.key)) :
                   result.key \in KeysOf(nodes, DescentPath(nodes, root, result.key)[j])
            /\ n = FirstHolding(nodes, DescentPath(nodes, root, result.key), result.key)

\* a hit in a leaf of a tree of three levels, past the first key of the leaf,
\* for a key that was inserted more than once
C8_Witness ==
    /\ Idle /\ Hit(result.ret) /\ Height = {3}
    /\ nodes[result.ret.node].is_leaf
    /\ result.ret.index > 0
    /\ CopiesIn(result.key, inserted) > 1

\* the value None returned by a call
ReturnedNone == [kind |-> "None", node |-> None, index |-> None]

\* C9 (as stated): a search for a key that is not stored completes without
\* raising and returns None.  The code returns the pair (None, None).
C9_MissReturnsNone ==
    (Idle /\ result.ret.kind # "no call" /\ result.key \notin SubtreeKeys(nodes, root))
        => result.ret = ReturnedNone

DemoDone == Idle /\ BagCardinality(inserted) = Len(keys_to_insert)

\* C10: in the demonstration (t = 3, the seventeen keys inserted in ascending
\* order) search(15) hits at index 1, search(25) at index 0, search(50) at
\* index 4, search(33) at index 0, and search(1), search(2), search(100) miss.
C10_DemoSearches ==
    DemoDone =>
        /\ Hit(search(nodes, root, 15)) /\ search(nodes, root, 15).index = 1
        /\ Hit(search(nodes, root, 25)) /\ search(nodes, root, 25).index = 0
        /\ Hit(search(nodes, root, 50)) /\ search(nodes, root, 50).index = 4
        /\ Hit(search(nodes, root, 33)) /\ search(nodes, root, 33).index = 0
        /\ search(nodes, root, 1) = Tuple(None, None)
        /\ search(nodes, root, 2) = Tuple(None, None)
        /\ search(nodes, root, 100) = Tuple(None, None)

\* the cell's search for 50 has returned, after all seventeen inserts
C10_Witness == DemoDone /\ result.key = 50 /\ result.ret.index = 4

\* the step on which the pending insert returns to its caller
InsertReturns == pc # "idle" /\ pc' = "idle" /\ inserted' # inserted

HeightOf(h, r) == LeafDepths(h, r, 1)

\* C14: an insert called while the root holds 2t-1 keys installs a new internal
\* root whose two children are the old root and one new sibling and whose only
\* key is the old root's key at position t-1, and the height grows by exactly
\* one; an insert called while the root holds fewer keys leaves the root node
\* and the height as they were.
C14_RootSplitGrowsHeight ==
    [][InsertReturns =>
        LET h0 == entry.nodes
            r0 == entry.root
        IN  IF h0[r0].n_keys = 2 * t - 1
            THEN /\ root' \notin DOMAIN h0
                 /\ ~nodes'[root'].is_leaf
                 /\ Len(nodes'[root'].children) = 2
                 /\ At(nodes'[root'].children, 0) = r0
                 /\ At(nodes'[root'].children, 1) \notin DOMAIN h0
                 /\ At(nodes'[root'].children, 1) # root'
                 /\ nodes'[root'].keys = <<At(h0[r0].keys, t - 1)>>
                 /\ nodes'[root'].n_keys = 1
                 /\ HeightOf(nodes', root') = {d + 1 : d \in HeightOf(h0, r0)}
            ELSE /\ root' = r0
                 /\ HeightOf(nodes', root') = HeightOf(h0, r0)]_vars

\* an insert has returned that split an internal root: three levels under a
\* root with one key
C14_Witness ==
    /\ Idle /\ Height = {3}
    /\ nodes[root].n_keys = 1 /\ Len(nodes[root].children) = 2
    /\ root = Len(nodes) - 2

\* lst without its position i (0-based)
Without(lst, i) == SubSeq(lst, 1, i) \o SubSeq(lst, i + 2, Len(lst))

\* C15: _split_child(parent, i) on a child holding exactly 2t-1 keys leaves the
\* child with its keys 0..t-2, creates a sibling of the same kind holding the
\* keys t..2t-2 (an internal child keeps its first t children, the sibling gets
\* the last t), puts the key t-1 at parent.keys[i] and the sibling at
\* parent.children[i+1]; the parent gains exactly one key and its other keys
\* and children keep their order.
C15_SplitChildEffect ==
    [][(pc = "_split_child" /\ Len(nodes[At(nodes[call_node].children, call_i)].keys) = 2 * t - 1) =>
        LET p   == call_node
            c   == At(nodes[p].children, call_i)
            sib == At(nodes'[p].children, call_i + 1)
            old == nodes[c]
        IN  /\ sib \notin DOMAIN nodes /\ sib \in DOMAIN nodes'
            /\ Len(nodes'[c].keys) = t - 1 /\ nodes'[c].n_keys = t - 1
            /\ \A j \in 0..(t - 2) : At(nodes'[c].keys, j) = At(old.keys, j)
            /\ nodes'[sib].is_leaf = old.is_leaf /\ nodes'[c].is_leaf = old.is_leaf
            /\ Len(nodes'[sib].keys) = t - 1 /\ nodes'[sib].n_keys = t - 1
            /\ \A j \in 0..(t - 2) : At(nodes'[sib].keys, j) = At(old.keys, t + j)
            /\ IF old.is_leaf
               THEN nodes'[c].children = <<>> /\ nodes'[sib].children = <<>>
               ELSE /\ Len(nodes'[c].children) = t /\ Len(nodes'[sib].children) = t
                    /\ \A j \in 0..(t - 1) :
                          /\ At(nodes'[c].children, j) = At(old.children, j)
                          /\ At(nodes'[sib].children, j) = At(old.children, t + j)
            /\ At(nodes'[p].keys, call_i) = At(old.keys, t - 1)
            /\ At(nodes'[p].children, call_i) = c
            /\ nodes'[p].n_keys = nodes[p].n_keys + 1
            /\ Len(nodes'[p].keys) = Len(nodes[p].keys) + 1
            /\ Without(nodes'[p].keys, call_i) = nodes[p].keys
            /\ Without(nodes'[p].children, call_i + 1) = nodes[p].children
            /\ \A n \in DOMAIN nodes \ {p, c} : nodes'[n] = nodes[n]]_vars

\* a split of an internal child has just been made: the new root's first child
\* is internal and the descent is about to continue from the new root
C15_Witness ==
    /\ pc = "_insert_non_full" /\ caller = "insert" /\ call_node = root
    /\ root # entry.root
    /\ ~nodes[At(nodes[root].children, 0)].is_leaf
    /\ Len(nodes[At(nodes[root].children, 1)].children) = t

\* a split of a leaf child between two other children of its parent
C15_WitnessMiddle ==
    /\ pc = "_insert_non_full" /\ caller = "_insert_non_full"
    /\ \E p \in DOMAIN nodes : \E i \in 1..(Len(nodes[p].children) - 2) :
          At(nodes[p].children, i + 1) = Len(nodes) /\ At(nodes[p].children, i) = call_node

\* C16: during any insert, _insert_non_full is entered only on a node holding
\* fewer than 2t-1 keys and _split_child only on a child holding exactly 2t-1
\* keys, and in every state, those inside an insert included, no node holds
\* more than 2t-1 keys.
C16_ProactiveSplitting ==
    /\ pc = "_insert_non_full" =>
          /\ nodes[call_node].n_keys < 2 * t - 1
          /\ Len(nodes[call_node].keys) < 2 * t - 1
    /\ pc = "_split_child" =>
          /\ call_i < Len(nodes[call_node].children)
          /\ nodes[At(nodes[call_node].children, call_i)].n_keys = 2 * t - 1
          /\ Len(nodes[At(nodes[call_node].children, call_i)].keys) = 2 * t - 1
    /\ \A n \in DOMAIN nodes :
          nodes[n].n_keys <= 2 * t - 1 /\ Len(nodes[n].keys) <= 2 * t - 1

\* _insert_non_full is entered on a child that was full when the descent
\* reached its parent: it is the sibling made by the split one step before
C16_Witness ==
    /\ pc = "_insert_non_full" /\ caller = "_insert_non_full"
    /\ call_node = Len(nodes)
    /\ nodes[call_node].n_keys = t - 1
    /\ Cardinality(HeightOf(nodes, root)) = 1 /\ 3 \in HeightOf(nodes, root)

\* C17: a key for which search reports a hit is still reported as a hit after
\* every later insert, of any key, with or without splits.  Stated over one
\* insert, from its call to its return; a sequence of inserts follows.
C17_HitsSurviveInserts ==
    [][InsertReturns =>
        \A k \in Around(Keys) :
            Hit(search(entry.nodes, entry.root, k)) => Hit(search(nodes', root', k))]_vars

\* a key of the first leaf is found there after the tree has grown to three levels
C17_Witness ==
    /\ Idle /\ Height = {3}
    /\ Hit(result.ret) /\ result.ret.node = 1

\* the key slots <<node, position>> of the tree below the root
KeySlots == UNION {{<<n, j>> : j \in 1..Len(nodes[n].keys)} : n \in Subtree(nodes, root)}

\* how many times k is stored in the tree
StoredCopies(k) == Cardinality({p \in KeySlots : nodes[p[1]].keys[p[2]] = k})

C19_KeyCountMatchesKeys ==
    \A n \in DOMAIN nodes :
        /\ nodes[n].n_keys = Len(nodes[n].keys)
        /\ \A j \in 1..Len(nodes[n].keys) : nodes[n].keys[j] # None

\* entry to _split_child from _insert_non_full, below a root that has split
C19_Witness ==
    /\ pc = "_split_child" /\ caller = "_insert_non_full"
    /\ ~nodes[root].is_leaf
    /\ nodes[At(nodes[call_node].children, call_i)].is_leaf
    /\ call_node # root

\* C13: load_data(filename, directory) after save_data(data, filename,
\* directory), with no write or removal of that path in between, returns an
\* array equal to data; and load_data returns None when nothing exists at
\* the path.
C13_LoadReturnsSaved ==
    loaded.called =>
        /\ saved[<<loaded.directory, loaded.filename>>].is_saved =>
              loaded.ret = ReturnArray(saved[<<loaded.directory, loaded.filename>>].array)
        /\ ~exists(join(loaded.directory, loaded.filename)) => loaded.ret = ReturnNone

\* What the code does keep: the round trip under a file name ending in ".npy".
LoadReturnsSavedNpy ==
    (loaded.called /\ loaded.filename[Len(loaded.filename)] = ".npy") =>
        /\ saved[<<loaded.directory, loaded.filename>>].is_saved =>
              loaded.ret = ReturnArray(saved[<<loaded.directory, loaded.filename>>].array)
        /\ ~exists(join(loaded.directory, loaded.filename)) => loaded.ret = ReturnNone

\* C11: after build(A, num_leaf_models) of a non-empty sorted array A (and
\* nothing in the overflow buffer), for every key k, search(k) returns an
\* index i with A[i] = k when k occurs in A and NotFound when it does not,
\* however well the models fit.
C11_SearchExactAfterBuild ==
    (rmi.built /\ rmi.buffer = <<>>) =>
        \A k \in Around(RmiKeys) :
            LET r == rmi_search(rmi, k)
            IN  IF \E i \in 1..Len(rmi.keys) : rmi.keys[i] = k
                THEN r.kind = "index" /\ r.index \in 0..(Len(rmi.keys) - 1)
                        /\ rmi.keys[r.index + 1] = k
                ELSE r = NotFound

\* a key of the array that the window missed and the fallback found
C11_Witness ==
    /\ rmi.built /\ rmi.buffer = <<>> /\ Len(rmi.leaves) > 1
    /\ rmi_result.call = "search"
    /\ rmi_result.ret.kind = "index" /\ rmi_result.ret.fallback
    /\ rmi.keys[rmi_result.ret.index + 1] = rmi_result.key

\* C12: every key passed to insert is found by every later search for it,
\* before rebuild (in the overflow buffer, when the array misses) and after
\* any number of rebuilds (in the array).
C12_InsertedKeysFound ==
    rmi.built =>
        \A k \in BagToSet(rmi_inserted) :
            LET r == rmi_search(rmi, k)
            IN  \/ r.kind = "buffer" /\ (\E j \in 1..Len(rmi.buffer) : rmi.buffer[j] = k)
                \/ r.kind = "index" /\ r.index \in 0..(Len(rmi.keys) - 1)
                      /\ rmi.keys[r.index + 1] = k

\* an inserted key, not in the array that was built, found in the buffer
C12_WitnessBuffer ==
    /\ rmi_result.call = "search" /\ rmi_result.ret.kind = "buffer"
    /\ rmi_result.key \in BagToSet(rmi_inserted)

\* two inserted keys found in the array after a rebuild
C12_Witness ==
    /\ rmi_result.call = "search" /\ rmi_result.ret.kind = "index"
    /\ rmi.buffer = <<>>
    /\ BagCardinality(rmi_inserted) = MaxRmiInserts
    /\ rmi_result.key \in BagToSet(rmi_inserted)
    /\ CopiesIn(rmi_result.key, rmi_inserted) =
           Cardinality({i \in 1..Len(rmi.keys) : rmi.keys[i] = rmi_result.key})

====
